---------------------------- MODULE Spec2Model ----------------------------
(***************************************************************************)
(* The calculator engine of src/src/lib/calculator.ts (class Calculator)  *)
(* and the key handlers of src/src/components/calculator/Calculator.tsx.  *)
(*                                                                         *)
(* Text is a sequence of one-character strings ("12.5" is <<"1","2",".",  *)
(* "5">>); null and undefined are the one-element sequences Null and      *)
(* Undefined, which no text of the program equals.  The operators × and ÷ *)
(* are written "*" and "/".                                                *)
(*                                                                         *)
(* A JavaScript number is modelled as NaN or an exact reduced fraction    *)
(* n/d.  This agrees with IEEE-754 doubles wherever the arithmetic is     *)
(* exact.  Values outside the window of NumLimit are "out"; every action  *)
(* that would have to compute one is disabled.                             *)
(***************************************************************************)
EXTENDS Integers, Sequences, FiniteSets, TLC

VARIABLES currentValue, currentLabel, currentUnit, currentColor,
          previousValue, previousLabel, previousUnit, previousColor,
          operation, shouldResetScreen, history, variables,
          lastExpressionTokens, inputHistory, isIntermediateResult,
          now, keys, calls, last

engine == <<currentValue, currentLabel, currentUnit, currentColor,
            previousValue, previousLabel, previousUnit, previousColor,
            operation, shouldResetScreen, history, variables,
            lastExpressionTokens, inputHistory, isIntermediateResult>>

vars == <<engine, now, keys, calls, last>>

(***************************************************************************)
(* Bounds of the model.                                                    *)
(***************************************************************************)
\* keys pressed in the single-expression specification
MaxKeys == 6
\* method calls made in the editing and the variable specifications
MaxCalls == 5
\* calculations made in the history-cap specification
MaxRounds == 52
\* keys pressed in the parenthesis specification
MaxParenKeys == 8
\* largest numerator and denominator of a modelled number
NumLimit == 100000000

(***************************************************************************)
(* Text                                                                    *)
(***************************************************************************)
Null == <<"null">>
Undefined == <<"undefined">>
ErrorMarker == <<"E", "r", "r", "o", "r">>
\* the text of a number outside the modelled window
OutText == <<"out">>
NaNText == <<"N", "a", "N">>

DigitChars == {"0", "1", "2", "3", "4", "5", "6", "7", "8", "9"}

DigitVal(c) ==
    CASE c = "0" -> 0 [] c = "1" -> 1 [] c = "2" -> 2 [] c = "3" -> 3
      [] c = "4" -> 4 [] c = "5" -> 5 [] c = "6" -> 6 [] c = "7" -> 7
      [] c = "8" -> 8 [] c = "9" -> 9

DigitChar(k) ==
    CASE k = 0 -> "0" [] k = 1 -> "1" [] k = 2 -> "2" [] k = 3 -> "3"
      [] k = 4 -> "4" [] k = 5 -> "5" [] k = 6 -> "6" [] k = 7 -> "7"
      [] k = 8 -> "8" [] k = 9 -> "9"

\* String.prototype.includes for a single character
Includes(s, c) == \E i \in 1..Len(s) : s[i] = c

\* x || undefined
OrUndefined(x) == IF x = Null \/ x = <<>> \/ x = Undefined THEN Undefined ELSE x

\* x || null
OrNull(x) == IF x = Null \/ x = <<>> \/ x = Undefined THEN Null ELSE x

RECURSIVE IntToChars(_)
\* Number.prototype.toString of a non-negative integer
IntToChars(k) ==
    IF k < 10 THEN <<DigitChar(k)>>
    ELSE Append(IntToChars(k \div 10), DigitChar(k % 10))


(***************************************************************************)
(* Numbers                                                                 *)
(***************************************************************************)
NaN == [k |-> "nan", n |-> 0, d |-> 1]
OutOfRange == [k |-> "out", n |-> 0, d |-> 1]

Abs(i) == IF i < 0 THEN 0 - i ELSE i

RECURSIVE GCD(_, _)
GCD(a, b) == IF b = 0 THEN a ELSE GCD(b, a % b)

RECURSIVE Pow10(_)
Pow10(k) == IF k = 0 THEN 1 ELSE 10 * Pow10(k - 1)

\* the fraction n/d (d > 0) in lowest terms, or OutOfRange
Reduced(rn, rd) ==
    IF Abs(rn) > NumLimit \/ rd > NumLimit THEN OutOfRange
    ELSE IF rn # 0 /\ Abs(rn) < 100 /\ Abs(rn) * 1000000 < rd THEN OutOfRange
    ELSE [k |-> "num", n |-> rn, d |-> rd]

DivideBoth(n, d, g) == Reduced(n \div g, d \div g)

Frac(n, d) == DivideBoth(n, d, GCD(Abs(n), d))

IsNum(x) == x.k = "num"

\* a product of non-negative integers that stays within NumLimit
Fits(a, b) == a = 0 \/ b <= NumLimit \div a

Neg(x) == IF IsNum(x) THEN [x EXCEPT !.n = 0 - x.n] ELSE x

\* a + b over the common denominator a.d * m1 = b.d * m2
AddScaled(a, b, m1, m2) ==
    IF Fits(Abs(a.n), m1) /\ Fits(Abs(b.n), m2) /\ Fits(a.d, m1)
    THEN Frac(a.n * m1 + b.n * m2, a.d * m1)
    ELSE OutOfRange

NumAdd(a, b) ==
    IF a.k = "out" \/ b.k = "out" THEN OutOfRange
    ELSE IF a.k = "nan" \/ b.k = "nan" THEN NaN
    ELSE AddScaled(a, b, b.d \div GCD(a.d, b.d), a.d \div GCD(a.d, b.d))

NumSub(a, b) == NumAdd(a, Neg(b))

\* (n1 * n2) / (d1 * d2), the common factors cancelled
MulCancelled(n1, n2, d1, d2) ==
    IF Fits(Abs(n1), Abs(n2)) /\ Fits(d1, d2) THEN Frac(n1 * n2, d1 * d2)
    ELSE OutOfRange

NumMul(a, b) ==
    IF a.k = "out" \/ b.k = "out" THEN OutOfRange
    ELSE IF a.k = "nan" \/ b.k = "nan" THEN NaN
    ELSE MulCancelled(a.n \div GCD(Abs(a.n), b.d), b.n \div GCD(Abs(b.n), a.d),
                      a.d \div GCD(Abs(b.n), a.d), b.d \div GCD(Abs(a.n), b.d))

\* a / b for b # 0
NumDiv(a, b) ==
    IF a.k = "out" \/ b.k = "out" THEN OutOfRange
    ELSE IF a.k = "nan" \/ b.k = "nan" THEN NaN
    ELSE NumMul(a, [k |-> "num", n |-> IF b.n < 0 THEN 0 - b.d ELSE b.d,
                    d |-> Abs(b.n)])

\* value === 0
IsZero(x) == IsNum(x) /\ x.n = 0

(***************************************************************************)
(* parseFloat: the longest prefix that is a decimal literal                *)
(***************************************************************************)
RECURSIVE EndDigits(_, _)
\* the first index from i on that holds no digit
EndDigits(s, i) ==
    IF i <= Len(s) /\ s[i] \in DigitChars THEN EndDigits(s, i + 1) ELSE i

RECURSIVE DigitsValue(_, _, _)
\* the value of the digits ds from index i on, added to acc; NumLimit + 1
\* stands for every value above NumLimit
DigitsValue(ds, i, acc) ==
    IF i > Len(ds) THEN acc
    ELSE IF acc > NumLimit \div 10 THEN NumLimit + 1
    ELSE DigitsValue(ds, i + 1, acc * 10 + DigitVal(ds[i]))

\* sign * m * 10^t
ScaledNumber(sign, m, t) ==
    IF m > NumLimit \/ t > 8 \/ t < 0 - 8 THEN OutOfRange
    ELSE IF t >= 0
    THEN (IF Fits(m, Pow10(t)) THEN Frac(sign * m * Pow10(t), 1)
          ELSE OutOfRange)
    ELSE Frac(sign * m, Pow10(0 - t))

\* the exponent part read from index bEnd, where the mantissa ends
ExponentOf(s, bEnd) ==
    IF bEnd <= Len(s) /\ s[bEnd] \in {"e", "E"}
    THEN LET eSigned == bEnd + 1 <= Len(s) /\ s[bEnd + 1] \in {"-", "+"}
             eStart == IF eSigned THEN bEnd + 2 ELSE bEnd + 1
             expAbs == DigitsValue(SubSeq(s, eStart, EndDigits(s, eStart) - 1), 1, 0)
         IN  IF eSigned /\ s[bEnd + 1] = "-" THEN 0 - expAbs ELSE expAbs
    ELSE 0

\* the literal whose integer digits are s[p1..aEnd-1] and whose fraction
\* digits, if a point follows, are s[aEnd+1..bEnd-1]
ParseDecimal(s, p1, aEnd, bEnd) ==
    LET hasDot == bEnd > aEnd
        nB == IF hasDot THEN bEnd - (aEnd + 1) ELSE 0
        ds == SubSeq(s, p1, aEnd - 1)
                \o (IF hasDot THEN SubSeq(s, aEnd + 1, bEnd - 1) ELSE <<>>)
    IN  IF Len(ds) = 0 THEN NaN
        ELSE ScaledNumber(IF s[1] = "-" THEN 0 - 1 ELSE 1,
                          DigitsValue(ds, 1, 0),
                          ExponentOf(s, bEnd) - nB)

ParseFrom(s, p1, aEnd) ==
    ParseDecimal(s, p1, aEnd,
                 IF aEnd <= Len(s) /\ s[aEnd] = "."
                 THEN EndDigits(s, aEnd + 1) ELSE aEnd)

ParseFloat(s) ==
    IF s = Null \/ s = Undefined \/ s = <<>> THEN NaN
    ELSE IF s = OutText THEN OutOfRange
    ELSE IF s[1] \in {"-", "+"} THEN ParseFrom(s, 2, EndDigits(s, 2))
    ELSE ParseFrom(s, 1, EndDigits(s, 1))

(***************************************************************************)
(* Number.prototype.toString and toExponential                             *)
(***************************************************************************)
RECURSIVE FracDigits(_, _, _)
\* the first k digits after the point of r/d (r < d), ending where the
\* expansion terminates
FracDigits(r, d, k) ==
    IF r = 0 \/ k = 0 THEN <<>>
    ELSE <<DigitChar((r * 10) \div d)>> \o FracDigits((r * 10) % d, d, k - 1)

\* decimal notation.  An expansion that does not terminate is cut after 17
\* fractional digits: the shortest text of such a double has 15 to 17
\* significant digits, and formatResult reads only whether the length
\* exceeds 12.
DecimalText(negative, whole, fr) ==
    (IF negative THEN <<"-">> ELSE <<>>)
      \o IntToChars(whole)
      \o (IF fr = <<>> THEN <<>> ELSE <<".">> \o fr)

NumberToString(x) ==
    IF x.k = "nan" THEN NaNText
    ELSE IF x.k = "out" THEN OutText
    ELSE DecimalText(x.n < 0, Abs(x.n) \div x.d,
                     FracDigits(Abs(x.n) % x.d, x.d, 17))

RECURSIVE LeadShift(_, _, _)
\* the least k with a * 10^k >= d, for 0 < a < d
LeadShift(a, d, k) == IF a >= d THEN k ELSE LeadShift(a * 10, d, k + 1)

RECURSIVE LongDiv(_, _, _, _)
\* <<quotient, remainder>> of (q + r/d) * 10^steps
LongDiv(q, r, d, steps) ==
    IF steps = 0 THEN <<q, r>>
    ELSE LongDiv(q * 10 + (r * 10) \div d, (r * 10) % d, d, steps - 1)

\* the decimal exponent of a/d, for a > 0
Exponent10(a, d) ==
    IF a >= d THEN Len(IntToChars(a \div d)) - 1 ELSE 0 - LeadShift(a, d, 0)

\* a/d * 10^(6 - e) rounded to an integer, halves upwards
Mantissa7(a, d, e) ==
    IF e >= 6
    THEN (2 * a + d * Pow10(e - 6)) \div (2 * d * Pow10(e - 6))
    ELSE LET qr == LongDiv(a \div d, a % d, d, 6 - e)
         IN  qr[1] + (IF 2 * qr[2] >= d THEN 1 ELSE 0)

\* the text d.dddddde+x of the seven digits ds and the exponent e
ExponentialText(negative, ds, e) ==
    (IF negative THEN <<"-">> ELSE <<>>)
      \o <<ds[1], ".">> \o SubSeq(ds, 2, 7)
      \o <<"e", IF e < 0 THEN "-" ELSE "+">> \o IntToChars(Abs(e))

\* rounding may carry into an eighth digit
ExponentialOf(negative, m, e) ==
    IF m = 10000000 THEN ExponentialText(negative, IntToChars(1000000), e + 1)
    ELSE ExponentialText(negative, IntToChars(m), e)

ExponentialFrom(x, e) ==
    ExponentialOf(x.n < 0, Mantissa7(Abs(x.n), x.d, e), e)

\* num.toExponential(6) for num # 0
ToExponential(x) == ExponentialFrom(x, Exponent10(Abs(x.n), x.d))

FormatChoice(num, str) == IF Len(str) > 12 THEN ToExponential(num) ELSE str

formatResult(num) == FormatChoice(num, NumberToString(num))

(***************************************************************************)
(* Display labels                                                          *)
(***************************************************************************)
\* \w of the regular expression, over the characters numeric texts hold
WordChars == DigitChars \cup {"N", "a", "E", "r", "o", "e", "_"}

RECURSIVE GroupThousands(_, _)
\* parts[0].replace(/\B(?=(\d{3})+(?!\d))/g, ","), from index i on
GroupThousands(head, i) ==
    IF i > Len(head) THEN <<>>
    ELSE (IF /\ i > 1
             /\ head[i - 1] \in WordChars
             /\ EndDigits(head, i) - i > 0
             /\ (EndDigits(head, i) - i) % 3 = 0
          THEN <<",">> ELSE <<>>)
           \o <<head[i]>> \o GroupThousands(head, i + 1)

RECURSIVE IndexOfDot(_, _)
IndexOfDot(s, i) ==
    IF i > Len(s) \/ s[i] = "." THEN i ELSE IndexOfDot(s, i + 1)

formatNumber(value) ==
    IF value = Null \/ value = <<>> \/ value = Undefined THEN <<>>
    ELSE IF Includes(value, "e") \/ Includes(value, "E") THEN value
    ELSE GroupThousands(SubSeq(value, 1, IndexOfDot(value, 1) - 1), 1)
           \o SubSeq(value, IndexOfDot(value, 1), Len(value))

formatNumberLabel(value, unit) ==
    IF OrNull(unit) # Null THEN formatNumber(value) \o <<" ">> \o unit
    ELSE formatNumber(value)

formatNameLabel(label, unit) ==
    IF OrNull(label) = Null THEN Undefined ELSE label

(***************************************************************************)
(* Tokens                                                                  *)
(***************************************************************************)
OperandToken(value, label, unit, color) ==
    [type |-> "operand",
     value |-> value,
     label |-> OrUndefined(label),
     unit |-> OrUndefined(unit),
     numberLabel |-> formatNumberLabel(value, unit),
     nameLabel |-> formatNameLabel(label, unit),
     color |-> OrUndefined(color)]

OperatorToken(op) ==
    [type |-> "operator",
     value |-> op,
     label |-> Undefined,
     unit |-> Undefined,
     numberLabel |-> Undefined,
     nameLabel |-> Undefined,
     color |-> Undefined]

HistoryItem(tokens, result) == [expressionTokens |-> tokens, result |-> result]

SavedVariable(label, value, unit, timestamp, color) ==
    [label |-> label, value |-> value, unit |-> unit,
     timestamp |-> timestamp, color |-> color]

Operations == {<<"+">>, <<"-">>, <<"*">>, <<"/">>}

\* history.length > 50
HistoryLimit == 50

(***************************************************************************)
(* The Calculator object: the fields as a record, each method as the       *)
(* object it leaves                                                        *)
(***************************************************************************)
NewCalculator ==
    [currentValue |-> <<"0">>,
     currentLabel |-> Null,
     currentUnit |-> Null,
     currentColor |-> Null,
     previousValue |-> Null,
     previousLabel |-> Null,
     previousUnit |-> Null,
     previousColor |-> Null,
     operation |-> Null,
     shouldResetScreen |-> FALSE,
     history |-> <<>>,
     variables |-> <<>>,
     lastExpressionTokens |-> Null,
     inputHistory |-> <<>>,
     isIntermediateResult |-> FALSE]

\* inputDigit as it would be if a new entry kept the unit of the old one
inputDigitKeepingUnit(c, digit) ==
    IF c.currentValue = <<"0">> /\ digit = <<"0">> THEN c
    ELSE IF c.shouldResetScreen
    THEN [c EXCEPT !.currentValue = digit,
                   !.currentLabel = Null,
                   !.currentColor = Null,
                   !.shouldResetScreen = FALSE,
                   !.isIntermediateResult = FALSE]
    ELSE IF c.currentValue = <<"0">> /\ digit # <<".">>
    THEN [c EXCEPT !.currentValue = digit]
    ELSE IF digit = <<".">> /\ Includes(c.currentValue, ".") THEN c
    ELSE [c EXCEPT !.currentValue = @ \o digit,
                   !.currentLabel = Null]

\* inputDigit as it would be without the test for a second "."
inputDigitAppendingDot(c, digit) ==
    IF c.currentValue = <<"0">> /\ digit = <<"0">> THEN c
    ELSE IF c.shouldResetScreen
    THEN [c EXCEPT !.currentValue = digit,
                   !.currentLabel = Null,
                   !.currentUnit = Null,
                   !.currentColor = Null,
                   !.shouldResetScreen = FALSE,
                   !.isIntermediateResult = FALSE]
    ELSE IF c.currentValue = <<"0">> /\ digit # <<".">>
    THEN [c EXCEPT !.currentValue = digit]
    ELSE [c EXCEPT !.currentValue = @ \o digit,
                   !.currentLabel = Null]

inputDigit(c, digit) ==
    IF c.currentValue = <<"0">> /\ digit = <<"0">> THEN c
    ELSE IF c.shouldResetScreen
    THEN [c EXCEPT !.currentValue = digit,
                   !.currentLabel = Null,
                   !.currentUnit = Null,
                   !.currentColor = Null,
                   !.shouldResetScreen = FALSE,
                   !.isIntermediateResult = FALSE]
    ELSE IF c.currentValue = <<"0">> /\ digit # <<".">>
    THEN [c EXCEPT !.currentValue = digit]
    ELSE IF digit = <<".">> /\ Includes(c.currentValue, ".") THEN c
    ELSE [c EXCEPT !.currentValue = @ \o digit,
                   !.currentLabel = Null]

inputDot(c) ==
    IF ~Includes(c.currentValue, ".")
    THEN [c EXCEPT !.currentValue = @ \o <<".">>,
                   !.shouldResetScreen = FALSE]
    ELSE c

handleError(c) ==
    [c EXCEPT !.currentValue = ErrorMarker,
              !.previousValue = Null,
              !.operation = Null,
              !.shouldResetScreen = TRUE]

\* the switch over this.operation, for current # 0 under "/"
Compute(op, previous, current) ==
    CASE op = <<"+">> -> NumAdd(previous, current)
      [] op = <<"-">> -> NumSub(previous, current)
      [] op = <<"*">> -> NumMul(previous, current)
      [] op = <<"/">> -> NumDiv(previous, current)

\* calculateIntermediate as it would be if it recorded its result as
\* calculate() does
calculateIntermediateRecording(c) ==
    IF c.previousValue = Null \/ c.operation = Null THEN c
    ELSE IF c.operation = <<"/">> /\ IsZero(ParseFloat(c.currentValue))
    THEN handleError(c)
    ELSE [c EXCEPT   !.history =
                         <<HistoryItem(c.inputHistory,
                                       formatResult(Compute(c.operation,
                                                            ParseFloat(c.previousValue),
                                                            ParseFloat(c.currentValue))))>>
                         \o @,
                     !.currentValue =
                         formatResult(Compute(c.operation,
                                              ParseFloat(c.previousValue),
                                              ParseFloat(c.currentValue))),
                     !.currentLabel = Null,
                     !.currentUnit = Null,
                     !.isIntermediateResult = TRUE]

calculateIntermediate(c) ==
    IF c.previousValue = Null \/ c.operation = Null THEN c
    ELSE IF c.operation = <<"/">> /\ IsZero(ParseFloat(c.currentValue))
    THEN handleError(c)
    ELSE [c EXCEPT   !.currentValue =
                         formatResult(Compute(c.operation,
                                              ParseFloat(c.previousValue),
                                              ParseFloat(c.currentValue))),
                     !.currentLabel = Null,
                     !.currentUnit = Null,
                     !.isIntermediateResult = TRUE]

\* this.inputHistory.push({type: 'operand', ...}) of the buffer
PushCurrentOperand(c) ==
    [c EXCEPT !.inputHistory =
        Append(@, OperandToken(c.currentValue, c.currentLabel,
                               c.currentUnit, c.currentColor))]

\* if (this.operation !== null && !this.shouldResetScreen) calculateIntermediate()
IntermediateStep(c) ==
    IF c.operation # Null /\ ~c.shouldResetScreen THEN calculateIntermediate(c)
    ELSE c

\* this.inputHistory.push({type: 'operator', value: op})
PushOperator(c, op) ==
    [c EXCEPT !.inputHistory = Append(@, OperatorToken(op))]

\* "Move current to previous", then the pending operator
MoveCurrentToPrevious(c, op) ==
    [c EXCEPT !.previousValue = c.currentValue,
              !.previousLabel = c.currentLabel,
              !.previousUnit = c.currentUnit,
              !.previousColor = c.currentColor,
              !.operation = op,
              !.shouldResetScreen = TRUE]

\* hasTypedNewValue || isStartingNewCalculation
CommitsOperand(c) ==
    ~c.shouldResetScreen \/ (c.shouldResetScreen /\ c.operation = Null)

\* setOperation as it would be if only a typed buffer were committed
setOperationTypedOnly(c, op) ==
    IF ~c.shouldResetScreen
    THEN MoveCurrentToPrevious(
             PushOperator(IntermediateStep(PushCurrentOperand(c)), op), op)
    ELSE MoveCurrentToPrevious(IntermediateStep(c), op)

\* setOperation as it would be if every call pushed its operator
setOperationAlwaysPushing(c, op) ==
    IF CommitsOperand(c)
    THEN MoveCurrentToPrevious(
             PushOperator(IntermediateStep(PushCurrentOperand(c)), op), op)
    ELSE MoveCurrentToPrevious(PushOperator(IntermediateStep(c), op), op)

\* setOperation as it would be if a second operator in a row were dropped
setOperationIgnoringSecond(c, op) ==
    IF CommitsOperand(c)
    THEN MoveCurrentToPrevious(
             PushOperator(IntermediateStep(PushCurrentOperand(c)), op), op)
    ELSE c

setOperation(c, op) ==
    IF CommitsOperand(c)
    THEN MoveCurrentToPrevious(
             PushOperator(IntermediateStep(PushCurrentOperand(c)), op), op)
    ELSE MoveCurrentToPrevious(IntermediateStep(c), op)

\* the unshift as it would be without the pop
UnshiftHistoryUncapped(h, item) == <<item>> \o h

\* this.history.unshift(item); if (this.history.length > 50) this.history.pop()
UnshiftHistory(h, item) ==
    IF Len(h) + 1 > HistoryLimit THEN <<item>> \o SubSeq(h, 1, Len(h) - 1)
    ELSE <<item>> \o h

\* the "=" right after an operator as it would be if the trailing operator
\* stayed in the recorded expression
calculateAfterOperatorKeepingOperator(c) ==
    [c EXCEPT !.history = UnshiftHistory(@, HistoryItem(c.inputHistory, c.currentValue)),
              !.inputHistory = <<>>,
              !.operation = Null,
              !.previousValue = Null,
              !.previousLabel = Null,
              !.previousUnit = Null,
              !.shouldResetScreen = TRUE,
              !.isIntermediateResult = FALSE]

\* lines 158-180: "=" pressed right after an operator
calculateAfterOperator(c) ==
    LET n == Len(c.inputHistory)
        tokens == IF n > 0 /\ c.inputHistory[n].type = "operator"
                  THEN SubSeq(c.inputHistory, 1, n - 1)
                  ELSE c.inputHistory
    IN  [c EXCEPT !.history = UnshiftHistory(@, HistoryItem(tokens, c.currentValue)),
                  !.inputHistory = <<>>,
                  !.operation = Null,
                  !.previousValue = Null,
                  !.previousLabel = Null,
                  !.previousUnit = Null,
                  !.shouldResetScreen = TRUE,
                  !.isIntermediateResult = FALSE]

\* lines 211-235: the result recorded and shown
RecordResult(c, resultString) ==
    [c EXCEPT !.history = UnshiftHistory(@, HistoryItem(c.inputHistory, resultString)),
              !.inputHistory = <<>>,
              !.currentValue = resultString,
              !.currentLabel = Null,
              !.currentUnit = Null,
              !.currentColor = Null,
              !.operation = Null,
              !.previousValue = Null,
              !.previousLabel = Null,
              !.previousUnit = Null,
              !.previousColor = Null,
              !.shouldResetScreen = TRUE,
              !.isIntermediateResult = FALSE]

\* lines 194-235, the final operand already pushed
calculateTyped(c) ==
    IF c.operation = <<"/">> /\ IsZero(ParseFloat(c.currentValue))
    THEN handleError(c)
    ELSE RecordResult(c, formatResult(Compute(c.operation,
                                              ParseFloat(c.previousValue),
                                              ParseFloat(c.currentValue))))

calculate(c) ==
    IF c.previousValue = Null \/ c.operation = Null THEN c
    ELSE IF c.shouldResetScreen THEN calculateAfterOperator(c)
    ELSE calculateTyped(PushCurrentOperand(c))

\* clear as it would be if it left the colors alone
clearKeepingColors(c) ==
    [c EXCEPT !.currentValue = <<"0">>,
              !.currentLabel = Null,
              !.currentUnit = Null,
              !.previousValue = Null,
              !.previousLabel = Null,
              !.previousUnit = Null,
              !.operation = Null,
              !.shouldResetScreen = FALSE,
              !.lastExpressionTokens = Null,
              !.inputHistory = <<>>,
              !.isIntermediateResult = FALSE]

clear(c) ==
    [c EXCEPT !.currentValue = <<"0">>,
              !.currentLabel = Null,
              !.currentUnit = Null,
              !.previousValue = Null,
              !.previousLabel = Null,
              !.previousUnit = Null,
              !.operation = Null,
              !.shouldResetScreen = FALSE,
              !.lastExpressionTokens = Null,
              !.inputHistory = <<>>,
              !.isIntermediateResult = FALSE,
              !.currentColor = Null,
              !.previousColor = Null]

delete(c) ==
    IF c.shouldResetScreen THEN c
    ELSE IF Len(c.currentValue) = 1 THEN [c EXCEPT !.currentValue = <<"0">>]
    ELSE [c EXCEPT !.currentValue = SubSeq(@, 1, Len(@) - 1)]

toggleSign(c) ==
    LET value == ParseFloat(c.currentValue)
    IN  IF IsZero(value) THEN c
        ELSE [c EXCEPT !.currentValue = NumberToString(Neg(value))]

percentage(c) ==
    LET value == ParseFloat(c.currentValue)
    IN  [c EXCEPT !.currentValue =
            NumberToString(NumDiv(value, [k |-> "num", n |-> 100, d |-> 1]))]

RECURSIVE LastOperandIndex(_, _)
\* for (let i = length - 1; i >= 0; i--) if (type === 'operand') ... break
LastOperandIndex(tokens, i) ==
    IF i = 0 THEN 0
    ELSE IF tokens[i].type = "operand" THEN i
    ELSE LastOperandIndex(tokens, i - 1)

\* setUnit as it would be if it left the derived labels as they were
setUnitKeepingLabels(c, target, unit) ==
    IF target = "current" THEN [c EXCEPT !.currentUnit = unit]
    ELSE IF target = "previous"
    THEN LET i == LastOperandIndex(c.inputHistory, Len(c.inputHistory))
             c1 == [c EXCEPT !.previousUnit = unit]
         IN  IF i = 0 THEN c1
             ELSE [c1 EXCEPT !.inputHistory[i].unit = OrUndefined(unit)]
    ELSE c

\* setLabel as it would be if the committed tokens were the very objects of
\* the newest history entry: the label goes to that entry's last operand too
setLabelSharingTokens(c, target, label, color) ==
    IF target = "current"
    THEN [c EXCEPT !.currentLabel = label,
                   !.currentColor = IF color # Undefined THEN color ELSE @]
    ELSE LET i == LastOperandIndex(c.inputHistory, Len(c.inputHistory))
             c1 == [c EXCEPT !.previousLabel = label,
                             !.previousColor = IF color # Undefined THEN color ELSE @]
         IN  IF i = 0 THEN c1
             ELSE IF c.history # <<>> /\ i \in DOMAIN c.history[1].expressionTokens
             THEN [c1 EXCEPT
                     !.inputHistory[i].label = label,
                     !.inputHistory[i].nameLabel =
                         formatNameLabel(label, OrNull(c.inputHistory[i].unit)),
                     !.history[1].expressionTokens[i].label = label,
                     !.history[1].expressionTokens[i].nameLabel =
                         formatNameLabel(label, OrNull(c.inputHistory[i].unit))]
             ELSE [c1 EXCEPT
                     !.inputHistory[i].label = label,
                     !.inputHistory[i].nameLabel =
                         formatNameLabel(label, OrNull(c.inputHistory[i].unit))]

\* setLabel as it would be if the search for the committed operand ran from
\* the start of the committed sequence
setLabelFirstOperand(c, target, label, color) ==
    IF target = "current"
    THEN [c EXCEPT !.currentLabel = label,
                   !.currentColor = IF color # Undefined THEN color ELSE @]
    ELSE IF target = "previous"
    THEN LET c1 == [c EXCEPT !.previousLabel = label,
                             !.previousColor = IF color # Undefined THEN color ELSE @]
         IN  IF c.inputHistory = <<>> \/ c.inputHistory[1].type # "operand" THEN c1
             ELSE [c1 EXCEPT
                     !.inputHistory[1].label = label,
                     !.inputHistory[1].nameLabel =
                         formatNameLabel(label, OrNull(c.inputHistory[1].unit)),
                     !.inputHistory[1].color =
                         IF color # Undefined THEN OrUndefined(color) ELSE @]
    ELSE c

\* color is Undefined when the argument is omitted
setLabel(c, target, label, color) ==
    IF target = "current"
    THEN [c EXCEPT !.currentLabel = label,
                   !.currentColor = IF color # Undefined THEN color ELSE @]
    ELSE IF target = "previous"
    THEN LET i == LastOperandIndex(c.inputHistory, Len(c.inputHistory))
             c1 == [c EXCEPT !.previousLabel = label,
                             !.previousColor = IF color # Undefined THEN color ELSE @]
         IN  IF i = 0 THEN c1
             ELSE [c1 EXCEPT
                     !.inputHistory[i].label = label,
                     !.inputHistory[i].nameLabel =
                         formatNameLabel(label, OrNull(c.inputHistory[i].unit)),
                     !.inputHistory[i].color =
                         IF color # Undefined THEN OrUndefined(color) ELSE @]
    ELSE c

setUnit(c, target, unit) ==
    IF target = "current" THEN [c EXCEPT !.currentUnit = unit]
    ELSE IF target = "previous"
    THEN LET i == LastOperandIndex(c.inputHistory, Len(c.inputHistory))
             c1 == [c EXCEPT !.previousUnit = unit]
         IN  IF i = 0 THEN c1
             ELSE [c1 EXCEPT
                     !.inputHistory[i].unit = OrUndefined(unit),
                     !.inputHistory[i].numberLabel =
                         formatNumberLabel(c.inputHistory[i].value, unit),
                     !.inputHistory[i].nameLabel =
                         formatNameLabel(OrNull(c.inputHistory[i].label), unit)]
    ELSE c

\* loadFromHistory as it would be if it left the buffer as clear() leaves it
loadFromHistoryWithoutResult(c, index) ==
    IF index \notin DOMAIN c.history THEN c
    ELSE [clear(c) EXCEPT !.inputHistory = c.history[index].expressionTokens,
                          !.shouldResetScreen = TRUE]

\* index counts from 1 here; the source's index is this one minus 1
\* loadFromHistory as it would be without the call of clear()
loadFromHistoryKeepingPending(c, index) ==
    IF index \notin DOMAIN c.history THEN c
    ELSE [c EXCEPT !.inputHistory = c.history[index].expressionTokens,
                   !.currentValue = c.history[index].result,
                   !.shouldResetScreen = TRUE]

loadFromHistory(c, index) ==
    IF index \notin DOMAIN c.history THEN c
    ELSE LET item == c.history[index]
         IN  [clear(c) EXCEPT !.inputHistory = item.expressionTokens,
                              !.currentValue = item.result,
                              !.shouldResetScreen = TRUE]

RECURSIVE FindIndex(_, _, _)
\* this.variables.findIndex(v => v.label === label), 0 for -1
FindIndex(vs, label, i) ==
    IF i > Len(vs) THEN 0
    ELSE IF vs[i].label = label THEN i
    ELSE FindIndex(vs, label, i + 1)

RECURSIVE InsertByTimestamp(_, _, _)
\* v placed behind every entry of sorted that is at least as new
InsertByTimestamp(sorted, v, i) ==
    IF i > Len(sorted) THEN Append(sorted, v)
    ELSE IF sorted[i].timestamp < v.timestamp
    THEN SubSeq(sorted, 1, i - 1) \o <<v>> \o SubSeq(sorted, i, Len(sorted))
    ELSE InsertByTimestamp(sorted, v, i + 1)

RECURSIVE SortNewestFirst(_, _, _)
\* variables.sort((a, b) => b.timestamp - a.timestamp): a stable sort
SortNewestFirst(vs, i, sorted) ==
    IF i > Len(vs) THEN sorted
    ELSE SortNewestFirst(vs, i + 1, InsertByTimestamp(sorted, vs[i], 1))

\* saveVariable as it would be if it pushed without looking for the label
saveVariableAlwaysPushing(c, label, value, unit, color, timestamp) ==
    [c EXCEPT !.variables =
        SortNewestFirst(
            Append(@, SavedVariable(label, value, unit, timestamp, color)),
            1, <<>>)]

\* timestamp is the value Date.now() returns
saveVariable(c, label, value, unit, color, timestamp) ==
    LET existingIndex == FindIndex(c.variables, label, 1)
        newVar == SavedVariable(label, value, unit, timestamp, color)
        stored == IF existingIndex >= 1
                  THEN [c.variables EXCEPT ![existingIndex] = newVar]
                  ELSE Append(c.variables, newVar)
    IN  [c EXCEPT !.variables = SortNewestFirst(stored, 1, <<>>)]

deleteVariable(c, label) ==
    [c EXCEPT !.variables = SelectSeq(@, LAMBDA v : v.label # label)]

inputVariable(c, variable) ==
    [inputDigit(c, variable.value) EXCEPT
        !.currentValue = variable.value,
        !.currentLabel = variable.label,
        !.currentUnit = OrNull(variable.unit),
        !.currentColor = OrNull(variable.color),
        !.shouldResetScreen = FALSE]

(***************************************************************************)
(* The display tokens: a token with its id, Undefined for a token that has *)
(* none                                                                    *)
(***************************************************************************)
CurrentId == <<"current">>
PreviousId == <<"previous">>

\* `token-${i}`, i counting from 0
TokenId(i) == <<"token-">> \o IntToChars(i)

WithId(t, id) ==
    [type |-> t.type, value |-> t.value, label |-> t.label, unit |-> t.unit,
     numberLabel |-> t.numberLabel, nameLabel |-> t.nameLabel,
     color |-> t.color, id |-> id]

\* formatNumber(value) + (unit ? ` ${unit}` : ''), label || undefined
SlotToken(value, label, unit, color, id) ==
    [type |-> "operand",
     value |-> value,
     label |-> OrUndefined(label),
     unit |-> OrUndefined(unit),
     numberLabel |-> formatNumber(value)
                       \o (IF OrNull(unit) # Null THEN <<" ">> \o unit ELSE <<>>),
     nameLabel |-> OrUndefined(label),
     color |-> OrUndefined(color),
     id |-> id]

\* lines 431-449: the committed tokens, then the buffer when it is typed
\* and not "0"
CommittedTokens(c) ==
    [i \in DOMAIN c.inputHistory |-> WithId(c.inputHistory[i], Undefined)]
      \o (IF ~c.shouldResetScreen /\ c.currentValue # <<"0">>
          THEN <<WithId(OperandToken(c.currentValue, c.currentLabel,
                                     c.currentUnit, c.currentColor),
                        CurrentId)>>
          ELSE <<>>)

\* lines 451-511: the three slots previous, operator, current
ThreeSlotTokens(c) ==
    (IF c.previousValue # Null
     THEN <<SlotToken(c.previousValue, c.previousLabel, c.previousUnit,
                      c.previousColor, PreviousId)>>
     ELSE <<>>)
      \o (IF c.operation # Null
          THEN <<WithId(OperatorToken(c.operation), Undefined)>> ELSE <<>>)
      \o (IF OrNull(c.previousValue) # Null /\ c.shouldResetScreen THEN <<>>
          ELSE <<SlotToken(c.currentValue, c.currentLabel, c.currentUnit,
                           c.currentColor, CurrentId)>>)

buildExpressionTokens(c) ==
    IF Len(c.inputHistory) > 0 THEN CommittedTokens(c) ELSE ThreeSlotTokens(c)

\* an operand with no id is given the id token-i of its place
IdentifiedTokens(tokens) ==
    [i \in DOMAIN tokens |->
        IF tokens[i].type = "operand" /\ tokens[i].id = Undefined
        THEN WithId(tokens[i], TokenId(i - 1)) ELSE tokens[i]]

getExpressionTokens(c) == IdentifiedTokens(buildExpressionTokens(c))

(***************************************************************************)
(* The rename dialog of Calculator.tsx: a click on a displayed token opens *)
(* it for that token, "Apply" and "Save" pass the fields typed to the      *)
(* engine                                                                  *)
(***************************************************************************)
\* handleTokenClick: if (token.type !== 'operand' || !token.id) return
Clickable(token) == token.type = "operand" /\ token.id # Undefined

\* editingToken.token.id === 'current' ? 'current' : 'previous'
TargetOf(token) == IF token.id = CurrentId THEN "current" ELSE "previous"

\* the dialog's label and unit are strings, its color a color or null
saveLabel(c, token, label, unit, color) ==
    setUnit(setLabel(c, TargetOf(token), label, color),
            TargetOf(token), OrNull(unit))

saveToVariables(c, token, label, unit, color, timestamp) ==
    IF label = <<>> THEN c
    ELSE saveLabel(saveVariable(c, label, token.value, unit,
                                OrUndefined(color), timestamp),
                   token, label, unit, color)

(***************************************************************************)
(* The parenthesis-aware engine that Calculator.tsx calls through          *)
(* inputParenthesis: calculator.ts holds no such method, so grouping, the  *)
(* operator commit and the evaluation of a grouped sequence are those of   *)
(* the design document, sections 3, 4.2 and 4.3                            *)
(***************************************************************************)
Open == <<"(">>
Close == <<")">>

GroupingToken(kind) ==
    [type |-> "grouping",
     value |-> kind,
     label |-> Undefined,
     unit |-> Undefined,
     numberLabel |-> Undefined,
     nameLabel |-> Undefined,
     color |-> Undefined]

\* precedence: {+,-} = 1, {*,/} = 2
Precedence(op) == IF op \in {<<"+">>, <<"-">>} THEN 1 ELSE 2

RECURSIVE PopOperators(_, _, _)
\* operators popped from the stack to the output queue while the top is an
\* operator of precedence at least least; <<output, stack>>
PopOperators(out, stack, least) ==
    IF stack # <<>> /\ stack[Len(stack)].type = "operator"
                    /\ Precedence(stack[Len(stack)].value) >= least
    THEN PopOperators(Append(out, stack[Len(stack)]),
                      SubSeq(stack, 1, Len(stack) - 1), least)
    ELSE <<out, stack>>

\* the stack after a grouping-close: the grouping-open on top is discarded
DiscardOpen(stack) ==
    IF stack # <<>> THEN SubSeq(stack, 1, Len(stack) - 1) ELSE stack

\* one token scanned; <<output, stack>>
ScanToken(t, out, stack) ==
    CASE t.type = "operand" -> <<Append(out, t), stack>>
      [] t.type = "operator" ->
            <<PopOperators(out, stack, Precedence(t.value))[1],
              Append(PopOperators(out, stack, Precedence(t.value))[2], t)>>
      [] t.value = Open -> <<out, Append(stack, t)>>
      [] OTHER -> <<PopOperators(out, stack, 1)[1],
                    DiscardOpen(PopOperators(out, stack, 1)[2])>>

RECURSIVE DrainStack(_, _)
\* the operators left on the stack popped to the output, grouping marks
\* discarded
DrainStack(out, stack) ==
    IF stack = <<>> THEN out
    ELSE DrainStack(IF stack[Len(stack)].type = "operator"
                    THEN Append(out, stack[Len(stack)]) ELSE out,
                    SubSeq(stack, 1, Len(stack) - 1))

RECURSIVE ShuntingYard(_, _, _, _)
\* the tokens from the i-th on scanned left to right: the output queue
ShuntingYard(tokens, i, out, stack) ==
    IF i > Len(tokens) THEN DrainStack(out, stack)
    ELSE ShuntingYard(tokens, i + 1,
                      ScanToken(tokens[i], out, stack)[1],
                      ScanToken(tokens[i], out, stack)[2])

Failure(kind) == [ok |-> FALSE, error |-> kind]
Value(x) == [ok |-> TRUE, value |-> x]

\* an operator applied to the two values on top of the value stack
ApplyOperator(op, values) ==
    IF Len(values) < 2 THEN Failure("MalformedExpression")
    ELSE IF op = <<"/">> /\ IsZero(values[Len(values)])
    THEN Failure("DivisionByZero")
    ELSE Value(Append(SubSeq(values, 1, Len(values) - 2),
                      Compute(op, values[Len(values) - 1],
                              values[Len(values)])))

RECURSIVE EvaluateRPN(_, _, _)
\* the output queue evaluated with a value stack; an empty queue is 0
EvaluateRPN(queue, i, values) ==
    IF i > Len(queue)
    THEN IF values = <<>> THEN Value(Frac(0, 1))
         ELSE Value(values[Len(values)])
    ELSE IF queue[i].type = "operand"
    THEN EvaluateRPN(queue, i + 1, Append(values, ParseFloat(queue[i].value)))
    ELSE IF ApplyOperator(queue[i].value, values).ok
    THEN EvaluateRPN(queue, i + 1, ApplyOperator(queue[i].value, values).value)
    ELSE ApplyOperator(queue[i].value, values)

Evaluate(tokens) == EvaluateRPN(ShuntingYard(tokens, 1, <<>>, <<>>), 1, <<>>)

\* the buffer left awaiting an operand, its naming cleared
AwaitOperand(c) ==
    [c EXCEPT !.currentLabel = Null,
              !.currentUnit = Null,
              !.currentColor = Null,
              !.shouldResetScreen = TRUE]

\* the last committed token is an operator
EndsWithOperator(tokens) ==
    tokens # <<>> /\ tokens[Len(tokens)].type = "operator"

\* Operator: the buffer committed when it is mid-edit, or when it is the
\* result that starts a new chain; an operator pressed right after an
\* operator replaces it; otherwise the operator is appended
commitOperation(c, op) ==
    IF ~c.shouldResetScreen \/ c.inputHistory = <<>>
    THEN AwaitOperand(PushOperator(PushCurrentOperand(c), op))
    ELSE IF EndsWithOperator(c.inputHistory)
    THEN [c EXCEPT !.inputHistory[Len(c.inputHistory)].value = op]
    ELSE AwaitOperand(PushOperator(c, op))

\* the buffer holds a typed, non-reset, non-empty, non-"0" value
HoldsTypedValue(c) ==
    ~c.shouldResetScreen /\ c.currentValue # <<>> /\ c.currentValue # <<"0">>

\* inputParenthesis as it would be without the implicit multiplication
inputParenthesisWithoutTimes(c, kind) ==
    IF kind = Open
    THEN [c EXCEPT !.inputHistory = Append(@, GroupingToken(Open))]
    ELSE [(IF c.shouldResetScreen THEN c ELSE PushCurrentOperand(c))
             EXCEPT !.inputHistory = Append(@, GroupingToken(Close)),
                    !.shouldResetScreen = TRUE]

inputParenthesis(c, kind) ==
    IF kind = Open
    THEN [(IF HoldsTypedValue(c) THEN commitOperation(c, <<"*">>) ELSE c)
             EXCEPT !.inputHistory = Append(@, GroupingToken(Open))]
    ELSE [(IF c.shouldResetScreen THEN c ELSE PushCurrentOperand(c))
             EXCEPT !.inputHistory = Append(@, GroupingToken(Close)),
                    !.shouldResetScreen = TRUE]

\* evaluator failure: the Error state, the committed sequence cleared
failEvaluation(c) ==
    [c EXCEPT !.currentValue = ErrorMarker,
              !.inputHistory = <<>>,
              !.shouldResetScreen = TRUE]

\* the committed sequence evaluated and recorded
evaluateCommitted(c) ==
    IF c.inputHistory = <<>> THEN c
    ELSE IF Evaluate(c.inputHistory).ok
    THEN RecordResult(c, formatResult(Evaluate(c.inputHistory).value))
    ELSE failEvaluation(c)

\* Calculate: the buffer committed as the final operand when it is mid-edit
calculateCommitted(c) ==
    evaluateCommitted(IF c.shouldResetScreen THEN c ELSE PushCurrentOperand(c))

(***************************************************************************)
(* The state: the fields of the one Calculator instance, the clock that    *)
(* Date.now() reads, the log of the keys the keypad has passed on, the     *)
(* number of calls of public methods made so far and the call made last,   *)
(* its method and its arguments                                            *)
(***************************************************************************)
Self ==
    [currentValue |-> currentValue,
     currentLabel |-> currentLabel,
     currentUnit |-> currentUnit,
     currentColor |-> currentColor,
     previousValue |-> previousValue,
     previousLabel |-> previousLabel,
     previousUnit |-> previousUnit,
     previousColor |-> previousColor,
     operation |-> operation,
     shouldResetScreen |-> shouldResetScreen,
     history |-> history,
     variables |-> variables,
     lastExpressionTokens |-> lastExpressionTokens,
     inputHistory |-> inputHistory,
     isIntermediateResult |-> isIntermediateResult]

\* the fields after a method has left the object c
Becomes(c) ==
    /\ currentValue' = c.currentValue
    /\ currentLabel' = c.currentLabel
    /\ currentUnit' = c.currentUnit
    /\ currentColor' = c.currentColor
    /\ previousValue' = c.previousValue
    /\ previousLabel' = c.previousLabel
    /\ previousUnit' = c.previousUnit
    /\ previousColor' = c.previousColor
    /\ operation' = c.operation
    /\ shouldResetScreen' = c.shouldResetScreen
    /\ history' = c.history
    /\ variables' = c.variables
    /\ lastExpressionTokens' = c.lastExpressionTokens
    /\ inputHistory' = c.inputHistory
    /\ isIntermediateResult' = c.isIntermediateResult

Init ==
    /\ currentValue = NewCalculator.currentValue
    /\ currentLabel = NewCalculator.currentLabel
    /\ currentUnit = NewCalculator.currentUnit
    /\ currentColor = NewCalculator.currentColor
    /\ previousValue = NewCalculator.previousValue
    /\ previousLabel = NewCalculator.previousLabel
    /\ previousUnit = NewCalculator.previousUnit
    /\ previousColor = NewCalculator.previousColor
    /\ operation = NewCalculator.operation
    /\ shouldResetScreen = NewCalculator.shouldResetScreen
    /\ history = NewCalculator.history
    /\ variables = NewCalculator.variables
    /\ lastExpressionTokens = NewCalculator.lastExpressionTokens
    /\ inputHistory = NewCalculator.inputHistory
    /\ isIntermediateResult = NewCalculator.isIntermediateResult
    /\ now = 0
    /\ keys = <<>>
    /\ calls = 0
    /\ last = [method |-> "constructor", args |-> <<>>]

(***************************************************************************)
(* What the host passes in                                                 *)
(***************************************************************************)
Digits == {<<"0">>, <<"1">>, <<"2">>}
DigitKeys == Digits \cup {<<".">>}
Labels == {<<"a">>, <<"b">>}
Units == {Undefined, <<"m">>}
Colors == {Undefined, <<"red">>}
VarValues == {<<"0">>, <<"1">>}
Targets == {"current", "previous"}

\* no number outside the modelled window was computed
InWindow(c) == c.currentValue # OutText

\* one more call of a public method has returned, leaving the object c
Call(c, method, args) ==
    /\ Becomes(c)
    /\ calls' = calls + 1
    /\ last' = [method |-> method, args |-> args]

(***************************************************************************)
(* One action per public method                                            *)
(***************************************************************************)
InputDigit(d) ==
    \E c \in {inputDigit(Self, d)} : Call(c, "inputDigit", <<d>>) /\ UNCHANGED now

InputDot ==
    \E c \in {inputDot(Self)} : Call(c, "inputDot", <<>>) /\ UNCHANGED now

SetOperation(op) ==
    \E c \in {setOperation(Self, op)} :
        InWindow(c) /\ Call(c, "setOperation", <<op>>) /\ UNCHANGED now

Calculate ==
    \E c \in {calculate(Self)} :
        InWindow(c) /\ Call(c, "calculate", <<>>) /\ UNCHANGED now

Clear == \E c \in {clear(Self)} : Call(c, "clear", <<>>) /\ UNCHANGED now

Delete == \E c \in {delete(Self)} : Call(c, "delete", <<>>) /\ UNCHANGED now

ToggleSign ==
    \E c \in {toggleSign(Self)} :
        InWindow(c) /\ Call(c, "toggleSign", <<>>) /\ UNCHANGED now

Percentage ==
    \E c \in {percentage(Self)} :
        InWindow(c) /\ Call(c, "percentage", <<>>) /\ UNCHANGED now

SetLabel(target, label, color) ==
    \E c \in {setLabel(Self, target, label, color)} :
        Call(c, "setLabel", <<target, label, color>>) /\ UNCHANGED now

SetUnit(target, unit) ==
    \E c \in {setUnit(Self, target, unit)} : Call(c, "setUnit", <<target, unit>>) /\ UNCHANGED now

LoadFromHistory(index) ==
    \E c \in {loadFromHistory(Self, index)} : Call(c, "loadFromHistory", <<index>>) /\ UNCHANGED now

\* Date.now() returns the clock, which never runs backwards
SaveVariable(label, value, unit, color) ==
    \E t \in {now, now + 1} :
        \E c \in {saveVariable(Self, label, value, unit, color, t)} :
            Call(c, "saveVariable", <<label, value, unit, color>>) /\ now' = t

DeleteVariable(label) ==
    \E c \in {deleteVariable(Self, label)} : Call(c, "deleteVariable", <<label>>) /\ UNCHANGED now

InputVariable(i) ==
    \E c \in {inputVariable(Self, variables[i])} : Call(c, "inputVariable", <<variables[i]>>) /\ UNCHANGED now

InputParenthesis(kind) ==
    \E c \in {inputParenthesis(Self, kind)} :
        Call(c, "inputParenthesis", <<kind>>) /\ UNCHANGED now

CommitOperation(op) ==
    \E c \in {commitOperation(Self, op)} :
        Call(c, "setOperation", <<op>>) /\ UNCHANGED now

CalculateCommitted ==
    \E c \in {calculateCommitted(Self)} :
        InWindow(c) /\ Call(c, "calculate", <<>>) /\ UNCHANGED now

(***************************************************************************)
(* The keypad of Calculator.tsx: each handler passes its key to the engine;  *)
(* keys is the log of the keys passed since construction, and the expression *)
(* is over once "=" was pressed                                             *)
(***************************************************************************)
Keying == Len(keys) < MaxKeys /\ \A i \in DOMAIN keys : keys[i] # "="

handleDigit(d) == Keying /\ InputDigit(d) /\ keys' = Append(keys, d[1])

handleOp(op) == Keying /\ SetOperation(op) /\ keys' = Append(keys, op[1])

handleEqual == Keying /\ Calculate /\ keys' = Append(keys, "=")

(***************************************************************************)
(* SpecKeys: one expression keyed on a new calculator                       *)
(***************************************************************************)
NextKeys ==
    \/ \E d \in Digits : handleDigit(d)
    \/ \E op \in Operations : handleOp(op)
    \/ handleEqual

SpecKeys == Init /\ [][NextKeys]_vars

(***************************************************************************)
(* Spec: the editing methods, in any order, MaxCalls calls in all           *)
(***************************************************************************)
\* one call made by a host that presses no key
Method(A) == calls < MaxCalls /\ A /\ UNCHANGED keys

Next ==
    \/ \E d \in DigitKeys : Method(InputDigit(d))
    \/ Method(InputDot)
    \/ \E op \in Operations : Method(SetOperation(op))
    \/ Method(Calculate)
    \/ Method(Clear)
    \/ Method(Delete)
    \/ Method(ToggleSign)
    \/ Method(Percentage)
    \/ \E i \in DOMAIN history : Method(LoadFromHistory(i))

Spec == Init /\ [][Next]_vars

(***************************************************************************)
(* SpecVars: the variable methods among "+", "/", "=" and clear             *)
(***************************************************************************)
NamedOperations == {<<"+">>, <<"/">>}

NextVars ==
    \/ \E label \in Labels, value \in VarValues, unit \in Units,
          color \in Colors : Method(SaveVariable(label, value, unit, color))
    \/ \E label \in Labels : Method(DeleteVariable(label))
    \/ \E i \in DOMAIN variables : Method(InputVariable(i))
    \/ \E op \in NamedOperations : Method(SetOperation(op))
    \/ Method(Calculate)
    \/ Method(Clear)

SpecVars == Init /\ [][NextVars]_vars

(***************************************************************************)
(* SpecHist: 1 is added over and over, "+ 1 =" after "+ 1 =", and "=" may   *)
(* follow "+" at once while the buffer is still 0                           *)
(***************************************************************************)
AddOne == calls < 3 * MaxRounds /\ UNCHANGED keys

NextHist ==
    \/ AddOne /\ operation = Null /\ SetOperation(<<"+">>)
    \/ AddOne /\ operation # Null /\ shouldResetScreen /\ InputDigit(<<"1">>)
    \/ /\ AddOne
       /\ operation # Null
       /\ ~shouldResetScreen \/ currentValue = <<"0">>
       /\ Calculate

SpecHist == Init /\ [][NextHist]_vars

(***************************************************************************)
(* SpecParen: one expression of one-digit operands, "+", "*" and one level  *)
(* of parentheses keyed on a new parenthesis-aware calculator               *)
(***************************************************************************)
ParenDigits == {<<"2">>, <<"3">>, <<"4">>}
ParenOperations == {<<"+">>, <<"*">>}

\* the grouping-open tokens committed and not yet closed
RECURSIVE Depth(_, _)
Depth(tokens, i) ==
    IF i = 0 THEN 0
    ELSE Depth(tokens, i - 1)
           + (IF tokens[i].type # "grouping" THEN 0
              ELSE IF tokens[i].value = Open THEN 1 ELSE -1)

KeyingParen ==
    Len(keys) < MaxParenKeys /\ \A i \in DOMAIN keys : keys[i] # "="

\* handleParenthesis passes the mark on
handleParenthesis(kind) ==
    KeyingParen /\ InputParenthesis(kind) /\ keys' = Append(keys, kind[1])

NextParen ==
    \/ \E d \in ParenDigits :
          /\ KeyingParen
          /\ \A i \in DOMAIN keys : i = Len(keys) => keys[i] \notin DigitChars
          /\ InputDigit(d)
          /\ keys' = Append(keys, d[1])
    \/ \E op \in ParenOperations :
          KeyingParen /\ CommitOperation(op) /\ keys' = Append(keys, op[1])
    \/ Depth(inputHistory, Len(inputHistory)) = 0 /\ handleParenthesis(Open)
    \/ Depth(inputHistory, Len(inputHistory)) = 1 /\ handleParenthesis(Close)
    \/ KeyingParen /\ CalculateCommitted /\ keys' = Append(keys, "=")

SpecParen == Init /\ [][NextParen]_vars

(***************************************************************************)
(* SpecLabels: the rename dialog (saveLabel passes the label typed, perhaps  *)
(* empty, the color picked and the unit or null) among the digit 1, "+",    *)
(* "=" and loadFromHistory                                                  *)
(***************************************************************************)
EditedLabels == {<<>>, <<"a">>}
EditedColors == {Null, <<"red">>}
EditedUnits == {Null, <<"m">>}

NextLabels ==
    \/ \E target \in Targets, label \in EditedLabels, color \in EditedColors :
          Method(SetLabel(target, label, color))
    \/ \E target \in Targets, unit \in EditedUnits :
          Method(SetUnit(target, unit))
    \/ Method(InputDigit(<<"1">>))
    \/ Method(SetOperation(<<"+">>))
    \/ Method(Calculate)
    \/ \E i \in DOMAIN history : Method(LoadFromHistory(i))

SpecLabels == Init /\ [][NextLabels]_vars

(***************************************************************************)
(* SpecTyping: digits, the point, delete, toggleSign, the operators, "="    *)
(* and clear, in any order, MaxCalls calls in all                           *)
(***************************************************************************)
NextTyping ==
    \/ \E d \in DigitKeys : Method(InputDigit(d))
    \/ Method(InputDot)
    \/ Method(Delete)
    \/ Method(ToggleSign)
    \/ \E op \in Operations : Method(SetOperation(op))
    \/ Method(Calculate)
    \/ Method(Clear)

SpecTyping == Init /\ [][NextTyping]_vars

(***************************************************************************)
(* SpecSession: a named, unit-bearing buffer among the digit keys, "+",     *)
(* "/", "=", one saved variable and loadFromHistory                         *)
(***************************************************************************)
NextSession ==
    \/ \E d \in DigitKeys : Method(InputDigit(d))
    \/ \E op \in NamedOperations : Method(SetOperation(op))
    \/ Method(Calculate)
    \/ \E label \in EditedLabels, color \in EditedColors :
          Method(SetLabel("current", label, color))
    \/ \E unit \in EditedUnits : Method(SetUnit("current", unit))
    \/ Method(SaveVariable(<<"b">>, <<"2">>, <<"m">>, <<"red">>))
    \/ \E i \in DOMAIN variables : Method(InputVariable(i))
    \/ \E i \in DOMAIN history : Method(LoadFromHistory(i))

SpecSession == Init /\ [][NextSession]_vars

(***************************************************************************)
(* SpecDialog: operands keyed and committed, and the rename dialog opened  *)
(* on any operand of the expression shown and closed with "Apply" or       *)
(* "Save"; the keyboard is deaf while the dialog is open, so a click and   *)
(* the button that follows it are one step                                 *)
(***************************************************************************)
DialogUnits == {<<>>, <<"m">>}

\* the token at place i of the expression shown is clicked, the fields are
\* filled in and "Apply" is pressed
SaveLabel(i, label, unit, color) ==
    /\ i \in DOMAIN getExpressionTokens(Self)
    /\ Clickable(getExpressionTokens(Self)[i])
    /\ \E c \in {saveLabel(Self, getExpressionTokens(Self)[i], label, unit, color)} :
          Call(c, "saveLabel", <<i, label, unit, color>>)
    /\ UNCHANGED now

\* the same with "Save", which also stores a variable
SaveToVariables(i, label, unit, color) ==
    /\ i \in DOMAIN getExpressionTokens(Self)
    /\ Clickable(getExpressionTokens(Self)[i])
    /\ \E t \in {now, now + 1} :
          \E c \in {saveToVariables(Self, getExpressionTokens(Self)[i],
                                    label, unit, color, t)} :
              Call(c, "saveToVariables", <<i, label, unit, color>>) /\ now' = t

NextDialog ==
    \/ \E d \in {<<"1">>, <<"2">>} : Method(InputDigit(d))
    \/ Method(SetOperation(<<"+">>))
    \/ Method(Calculate)
    \/ \E i \in 1 .. 5, label \in EditedLabels, unit \in DialogUnits,
          color \in EditedColors : Method(SaveLabel(i, label, unit, color))
    \/ \E i \in 1 .. 5, unit \in DialogUnits :
          Method(SaveToVariables(i, <<"a">>, unit, Null))

SpecDialog == Init /\ [][NextDialog]_vars

(***************************************************************************)
(* What the claims speak of                                                 *)
(***************************************************************************)
\* the number keyed by the digit keys keys[lo..hi]
Keyed(lo, hi) == Frac(DigitsValue(SubSeq(keys, lo, hi), 1, 0), 1)

\* keys[lo..hi] is a run of digit keys, one at least
DigitRun(lo, hi) == lo <= hi /\ \A j \in lo..hi : keys[j] \in DigitChars

\* the keys are operand (operator operand)+ "="
KeyedExpression ==
    /\ Len(keys) >= 4
    /\ keys[Len(keys)] = "="
    /\ keys[1] \in DigitChars
    /\ \E i \in DOMAIN keys : <<keys[i]>> \in Operations
    /\ \A i \in 1..(Len(keys) - 1) :
           <<keys[i]>> \in Operations => keys[i + 1] \in DigitChars

RECURSIVE KeyTokens(_, _)
\* the operands and operators keyed from keys[i] on, run being the digits
\* of the operand under way
KeyTokens(i, run) ==
    IF keys[i] = "=" THEN <<Frac(DigitsValue(run, 1, 0), 1)>>
    ELSE IF keys[i] \in DigitChars THEN KeyTokens(i + 1, Append(run, keys[i]))
    ELSE <<Frac(DigitsValue(run, 1, 0), 1), keys[i]>> \o KeyTokens(i + 1, <<>>)

RECURSIVE InfixValue(_, _, _, _)
\* the value of toks under standard precedence: sum holds the terms that
\* are complete, term the product under way, toks[i] the next operator;
\* NaN when a division by zero leaves no value
InfixValue(toks, i, sum, term) ==
    IF i > Len(toks) THEN NumAdd(sum, term)
    ELSE IF toks[i] = "*"
    THEN InfixValue(toks, i + 2, sum, NumMul(term, toks[i + 1]))
    ELSE IF toks[i] = "/"
    THEN (IF IsZero(toks[i + 1]) THEN NaN
          ELSE InfixValue(toks, i + 2, sum, NumDiv(term, toks[i + 1])))
    ELSE IF toks[i] = "+"
    THEN InfixValue(toks, i + 2, NumAdd(sum, term), toks[i + 1])
    ELSE InfixValue(toks, i + 2, NumAdd(sum, term), Neg(toks[i + 1]))

ValueOf(toks) == InfixValue(toks, 2, Frac(0, 1), toks[1])

\* the result text the engine shows for the value v
ShowsValue(v) ==
    /\ currentValue = formatResult(v)
    /\ history # <<>>
    /\ history[1].result = formatResult(v)

\* C1: an expression operand (operator operand)+ keyed on a new calculator
\* and closed by "=" leaves in the buffer, and records as the history
\* result, its value under standard infix precedence
C1_PrecedenceValue ==
    (KeyedExpression /\ IsNum(ValueOf(KeyTokens(1, <<>>))))
        => ShowsValue(ValueOf(KeyTokens(1, <<>>)))

\* C2: setOperation(op2) right after setOperation(op1) keeps the length of
\* the committed sequence and makes its last token the operator op2
C2_SecondOperatorReplaces ==
    [][\A op \in Operations :
          (last.method = "setOperation" /\ calls' = calls + 1
             /\ last' = [method |-> "setOperation", args |-> <<op>>])
          => /\ Len(inputHistory') = Len(inputHistory)
             /\ inputHistory' # <<>>
             /\ inputHistory'[Len(inputHistory')] = OperatorToken(op)]_vars

\* the keys are a, op1, op2, b, "=" with the first operator at keys[i]
DoubledOperator(i) ==
    /\ i + 3 <= Len(keys)
    /\ DigitRun(1, i - 1)
    /\ <<keys[i]>> \in Operations
    /\ <<keys[i + 1]>> \in Operations
    /\ DigitRun(i + 2, Len(keys) - 1)
    /\ keys[Len(keys)] = "="

\* C3: the keys a, op1, op2, b, "=" compute a op2 b (b # 0 under "/"):
\* the buffer and the recorded result show that value, and the buffer does
\* not show the error marker
C3_DoubledOperatorComputesSecond ==
    \A i \in DOMAIN keys :
        (DoubledOperator(i)
           /\ ~(keys[i + 1] = "/" /\ IsZero(Keyed(i + 2, Len(keys) - 1))))
        => /\ ShowsValue(Compute(<<keys[i + 1]>>, Keyed(1, i - 1),
                                 Keyed(i + 2, Len(keys) - 1)))
           /\ currentValue # ErrorMarker

C3_Witness ==
    /\ keys = <<"1", "+", "*", "2", "=">>
    /\ currentValue = <<"2">>
    /\ history[1].result = <<"2">>

\* the right operand of the operator keys[i] is zero
ZeroFollows(i) ==
    \E j \in (i + 2)..Len(keys) :
        /\ keys[j] \notin DigitChars
        /\ \A k \in (i + 1)..(j - 1) : keys[k] = "0"

\* C4: an expression keyed on a new calculator in which the right operand
\* of some "/" is 0 ends, at "=", in the Error state: the buffer shows the
\* error marker and shouldResetScreen is set
C4_DivisionByZeroIsError ==
    (KeyedExpression /\ \E i \in DOMAIN keys : keys[i] = "/" /\ ZeroFollows(i))
        => (currentValue = ErrorMarker /\ shouldResetScreen)

\* tokens holds a "/" whose right operand is zero
DividesByZero(tokens) ==
    \E j \in 1..(Len(tokens) - 1) :
        /\ tokens[j].type = "operator"
        /\ tokens[j].value = <<"/">>
        /\ IsZero(ParseFloat(tokens[j + 1].value))

\* C5: every history entry's result is numeric text, never the error marker
\* or NaN, and no entry records an expression that divides by zero
C5_NoFailureInHistory ==
    \A i \in DOMAIN history :
        /\ history[i].result # ErrorMarker
        /\ IsNum(ParseFloat(history[i].result))
        /\ ~DividesByZero(history[i].expressionTokens)

\* C6: the history never holds more than 50 entries, and every calculate()
\* that records puts its entry first, the earlier entries following in
\* their order, the last of 50 dropped
C6_HistoryCapped ==
    /\ [](Len(history) <= HistoryLimit)
    /\ [][(last'.method = "calculate" /\ calls' = calls + 1)
            => /\ history' # <<>>
               /\ history'[1].result = currentValue'
               /\ Tail(history') =
                      IF Len(history) = HistoryLimit
                      THEN SubSeq(history, 1, HistoryLimit - 1)
                      ELSE history]_vars

\* 51 entries or more were recorded: the entry 0 + 1 = 1 is gone
C6_Witness ==
    /\ last.method = "calculate"
    /\ Len(history) = HistoryLimit
    /\ history[HistoryLimit].result = <<"2">>
    /\ history[1].result = <<"5", "1">>

\* C7: once the buffer shows the error marker, every call but clear()
\* leaves it showing the error marker, commits no token and records no
\* history entry
C7_ErrorIsTerminal ==
    [][(currentValue = ErrorMarker /\ last'.method # "clear")
         => /\ currentValue' = ErrorMarker
            /\ inputHistory' = inputHistory
            /\ history' = history]_vars

\* C8: clear() leaves every field but history and variables as the
\* constructor left it, and history and variables as they were
C8_ClearRestores ==
    [][(last'.method = "clear" /\ calls' = calls + 1)
         => /\ currentValue' = NewCalculator.currentValue
            /\ currentLabel' = NewCalculator.currentLabel
            /\ currentUnit' = NewCalculator.currentUnit
            /\ currentColor' = NewCalculator.currentColor
            /\ previousValue' = NewCalculator.previousValue
            /\ previousLabel' = NewCalculator.previousLabel
            /\ previousUnit' = NewCalculator.previousUnit
            /\ previousColor' = NewCalculator.previousColor
            /\ operation' = NewCalculator.operation
            /\ shouldResetScreen' = NewCalculator.shouldResetScreen
            /\ lastExpressionTokens' = NewCalculator.lastExpressionTokens
            /\ inputHistory' = NewCalculator.inputHistory
            /\ isIntermediateResult' = NewCalculator.isIntermediateResult
            /\ history' = history
            /\ variables' = variables]_vars

\* clear() has run on a calculator with a recorded entry and a saved variable
C8_Witness ==
    /\ last.method = "clear"
    /\ history # <<>>
    /\ variables # <<>>
    /\ currentValue = <<"0">>
    /\ inputHistory = <<>>

\* C9: loadFromHistory(i) leaves entry i's result in the buffer, and a
\* calculate() that follows at once leaves it there
C9_LoadThenCalculate ==
    [][/\ (last'.method = "loadFromHistory" /\ calls' = calls + 1
             /\ last'.args[1] \in DOMAIN history)
          => currentValue' = history[last'.args[1]].result
       /\ (last.method = "loadFromHistory" /\ last'.method = "calculate"
             /\ calls' = calls + 1)
          => (currentValue' = currentValue /\ history' = history)]_vars

\* calculate() has run right after an entry with result 2 was loaded
C9_Witness ==
    /\ last.method = "calculate"
    /\ currentValue = <<"2">>
    /\ inputHistory # <<>>
    /\ \E i \in DOMAIN history :
           /\ history[i].result = <<"2">>
           /\ history[i].expressionTokens = inputHistory

\* the variables labelled label
Labelled(vs, label) == {j \in DOMAIN vs : vs[j].label = label}

\* the saved variables as a set
Saved(vs) == {vs[j] : j \in DOMAIN vs}

\* C10: no two saved variables share a label; saveVariable on a label that
\* is present keeps the length of the list and leaves that label with the
\* new value, unit and color; deleteVariable(label) removes the entry with
\* that label and no other
C10_VariablesKeyedByLabel ==
    /\ [](\A label \in Labels : Cardinality(Labelled(variables, label)) <= 1)
    /\ [][(last'.method = "saveVariable" /\ calls' = calls + 1)
            => /\ Len(variables') =
                      IF Labelled(variables, last'.args[1]) # {}
                      THEN Len(variables) ELSE Len(variables) + 1
               /\ \E j \in DOMAIN variables' :
                      /\ variables'[j].label = last'.args[1]
                      /\ variables'[j].value = last'.args[2]
                      /\ variables'[j].unit = last'.args[3]
                      /\ variables'[j].color = last'.args[4]
               /\ {v \in Saved(variables') : v.label # last'.args[1]}
                      = {v \in Saved(variables) : v.label # last'.args[1]}]_vars
    /\ [][(last'.method = "deleteVariable" /\ calls' = calls + 1)
            => /\ Saved(variables')
                      = {v \in Saved(variables) : v.label # last'.args[1]}
               /\ Len(variables') =
                      Len(variables)
                        - Cardinality(Labelled(variables, last'.args[1]))]_vars

\* two calls, both saveVariable (each moved the clock), have left one entry
C10_Witness ==
    /\ last.method = "saveVariable"
    /\ calls = 2
    /\ now = 2
    /\ Len(variables) = 1

\* vs without the entries labelled label, the others in their order
Without(vs, label) == SelectSeq(vs, LAMBDA v : v.label # label)

\* C11: after every saveVariable and deleteVariable the list is newest saved
\* first: the variable just saved or overwritten stands before every variable
\* saved earlier, which keep their order, and deleteVariable leaves the
\* others in their order
C11_NewestSavedFirst ==
    /\ [][(last'.method = "saveVariable" /\ calls' = calls + 1)
            => /\ variables'[1].label = last'.args[1]
               /\ Tail(variables') = Without(variables, last'.args[1])]_vars
    /\ [][(last'.method = "deleteVariable" /\ calls' = calls + 1)
            => variables' = Without(variables, last'.args[1])]_vars

\* the values and the types of a token sequence
TokenValues(tokens) == [i \in DOMAIN tokens |-> tokens[i].value]
TokenTypes(tokens) == [i \in DOMAIN tokens |-> tokens[i].type]

\* the text of the number x
TextOf(x) == formatResult(x)

C13_NoAdjacentOperators ==
    \A i \in DOMAIN inputHistory :
        inputHistory[i].type = "operator"
            => i > 1 /\ inputHistory[i - 1].type # "operator"

\* an operator was pressed right after another one: the pending operator
\* differs from the operator token that ends the committed sequence
C13_Witness ==
    /\ last.method = "setOperation"
    /\ Len(inputHistory) >= 4
    /\ inputHistory[Len(inputHistory)].type = "operator"
    /\ operation # inputHistory[Len(inputHistory)].value

\* the number line of an operand: its formatted value, then a space and
\* its unit when it has one
NumberLine(t) ==
    IF t.unit \in {Undefined, Null, <<>>} THEN formatNumber(t.value)
    ELSE formatNumber(t.value) \o <<" ">> \o t.unit

\* the name line of an operand: its label, undefined when none is set
NameLine(t) ==
    IF t.label \in {Undefined, Null, <<>>} THEN Undefined ELSE t.label

NumericText(value) ==
    /\ value \notin {ErrorMarker, NaNText}
    /\ IsNum(ParseFloat(value))

\* every operand token of tokens has a numeric value
NumericOperands(tokens) ==
    \A i \in DOMAIN tokens :
        tokens[i].type = "operand" => NumericText(tokens[i].value)

\* C15: every operand token of the committed sequence and of every history
\* entry has a value that parses to a number, never NaN, the error marker,
\* a bare sign or a bare dot
C15_OperandsAreNumeric ==
    /\ NumericOperands(inputHistory)
    /\ \A h \in DOMAIN history : NumericOperands(history[h].expressionTokens)

\* the entries of h that a new first entry leaves behind it
Shifted(h) ==
    IF Len(h) = HistoryLimit THEN SubSeq(h, 1, Len(h) - 1) ELSE h

\* C16: a recorded history entry never changes: a step leaves the history
\* as it is, or is a calculate() that puts one entry in front of the
\* unchanged earlier ones (the oldest evicted at the limit); setLabel and
\* setUnit after loadFromHistory leave every entry as it was
C16_HistoryEntriesImmutable ==
    /\ [][\/ history' = history
          \/ /\ last'.method = "calculate"
             /\ history' # <<>>
             /\ Tail(history') = Shifted(history)]_vars
    /\ [][(last'.method \in {"setLabel", "setUnit", "loadFromHistory"}
             /\ calls' = calls + 1)
            => history' = history]_vars

\* after loadFromHistory, setLabel('previous', 'a') has named the loaded
\* operand, and the entry it was loaded from is still unnamed
C16_Witness ==
    /\ last.method = "setLabel"
    /\ last.args[1] = "previous"
    /\ operation = Null
    /\ history # <<>>
    /\ inputHistory # <<>>
    /\ Len(history[1].expressionTokens) = Len(inputHistory)
    /\ inputHistory[Len(inputHistory)].label = <<"a">>
    /\ history[1].expressionTokens[Len(inputHistory)].label = Undefined

\* the text after is numeric and its value is the negation of that of before
NegationOf(before, after) ==
    /\ IsNum(ParseFloat(after))
    /\ IsNum(ParseFloat(before))
    /\ IsZero(NumAdd(ParseFloat(before), ParseFloat(after)))

\* all fields but currentValue
BesidesCurrentValue ==
    <<currentLabel, currentUnit, currentColor, previousValue, previousLabel,
      previousUnit, previousColor, operation, shouldResetScreen, history,
      variables, lastExpressionTokens, inputHistory, isIntermediateResult>>

\* C17: toggleSign() leaves the buffer as it is when its value is exactly
\* zero and otherwise replaces it by its negation, and changes nothing else
C17_ToggleSignNegates ==
    [][(last'.method = "toggleSign" /\ calls' = calls + 1)
         => /\ IF IsZero(ParseFloat(currentValue))
               THEN currentValue' = currentValue
               ELSE NegationOf(currentValue, currentValue')
            /\ UNCHANGED BesidesCurrentValue]_vars

\* the places of tokens that carry the id 'current'
CurrentPlaces(tokens) == {i \in DOMAIN tokens : tokens[i].id = CurrentId}

\* C18: whenever the buffer is mid-edit (shouldResetScreen false) the tokens
\* getExpressionTokens returns hold exactly one token of id 'current', it is
\* the last one, and it carries the buffer's value, label and unit
C18_CurrentTokenShown ==
    ~shouldResetScreen
        => /\ CurrentPlaces(getExpressionTokens(Self))
                = {Len(getExpressionTokens(Self))}
           /\ getExpressionTokens(Self) # <<>>
           /\ \A i \in CurrentPlaces(getExpressionTokens(Self)) :
                 /\ getExpressionTokens(Self)[i].value = currentValue
                 /\ getExpressionTokens(Self)[i].label = OrUndefined(currentLabel)
                 /\ getExpressionTokens(Self)[i].unit = OrUndefined(currentUnit)

\* the decimal points of a text
Points(s) == {i \in DOMAIN s : s[i] = "."}

\* a call of inputDigit('.') is being made
DotDigitStep ==
    /\ last'.method = "inputDigit"
    /\ last'.args = <<<<".">>>>
    /\ calls' = calls + 1

\* a call of inputDot() is being made
DotStep == last'.method = "inputDot" /\ calls' = calls + 1

\* C19 as stated: the buffer holds at most one decimal point, and inputDot()
\* and inputDigit('.') leave a buffer that holds one as it is
C19_OneDecimalPoint ==
    /\ [](Cardinality(Points(currentValue)) <= 1)
    /\ [][(DotStep \/ DotDigitStep) /\ Points(currentValue) # {}
            => currentValue' = currentValue]_vars

\* C19 as amended: the buffer holds at most one decimal point; inputDot()
\* leaves a buffer that holds one as it is; inputDigit('.') leaves it as it
\* is when the buffer is mid-edit, and when shouldResetScreen is set it
\* starts a new buffer "."
C19_OneDecimalPointWhileTyping ==
    /\ [](Cardinality(Points(currentValue)) <= 1)
    /\ [][DotStep /\ Points(currentValue) # {}
            => currentValue' = currentValue]_vars
    /\ [][DotDigitStep /\ Points(currentValue) # {} /\ ~shouldResetScreen
            => currentValue' = currentValue]_vars
    /\ [][DotDigitStep /\ shouldResetScreen
            => currentValue' = <<".">>]_vars

\* 1 . 2 took three calls; the fourth, inputDigit('.'), left the buffer 1.2
C19_Witness ==
    /\ calls = 4
    /\ last = [method |-> "inputDigit", args |-> <<<<".">>>>]
    /\ currentValue = <<"1", ".", "2">>
    /\ ~shouldResetScreen

\* the digits of a text that stand before its point, after its sign
IntegerPart(s) ==
    IF s # <<>> /\ s[1] = "-" THEN SubSeq(s, 2, EndDigits(s, 2) - 1)
    ELSE SubSeq(s, 1, EndDigits(s, 1) - 1)

\* C20: in every state reached through digits, the point, delete,
\* toggleSign, operators, calculate and clear the buffer has no redundant
\* leading zero: an integer part of two digits or more does not start
\* with "0", so "05", "00" and "-05" never occur
C20_NoLeadingZero ==
    Len(IntegerPart(currentValue)) >= 2 => IntegerPart(currentValue)[1] # "0"

\* a label, unit or color that is not set: null, undefined or empty
Unset(x) == OrNull(x) = Null

\* a call of calculate() is being made
CalculateStep == last'.method = "calculate" /\ calls' = calls + 1

\* a call of setOperation is being made
OperationStep == last'.method = "setOperation" /\ calls' = calls + 1

\* tokens without the operator that ends it, if one does
WithoutTrailingOperator(tokens) ==
    IF tokens # <<>> /\ tokens[Len(tokens)].type = "operator"
    THEN SubSeq(tokens, 1, Len(tokens) - 1) ELSE tokens

\* the sequence calculate() is to record: with the buffer as final operand
\* when the buffer is mid-edit, the committed sequence as it stands (a
\* dangling operator dropped) when it is not
SequenceToRecord ==
    IF ~shouldResetScreen
    THEN Append(inputHistory, OperandToken(currentValue, currentLabel,
                                           currentUnit, currentColor))
    ELSE WithoutTrailingOperator(inputHistory)

\* C21: after every calculate() that adds a history entry, the first entry
\* holds the committed sequence (with the buffer committed as final operand)
\* and the formatted result, the buffer value is that result, the committed
\* sequence is empty, the buffer's label, unit and color are cleared,
\* shouldResetScreen is true and isIntermediateResult is false
C21_CalculateRecordsAndResets ==
    [][CalculateStep /\ history' # history
         => /\ history'[1].expressionTokens = SequenceToRecord
            /\ history'[1].result = currentValue'
            /\ inputHistory' = <<>>
            /\ Unset(currentLabel')
            /\ Unset(currentUnit')
            /\ Unset(currentColor')
            /\ shouldResetScreen'
            /\ ~isIntermediateResult']_vars

\* the call being made is to divide by a typed zero: an evaluation that fails
EvaluationFails ==
    /\ CalculateStep \/ OperationStep
    /\ previousValue # Null
    /\ operation = <<"/">>
    /\ ~shouldResetScreen
    /\ IsZero(ParseFloat(currentValue))

\* C22: when an evaluation fails, in calculate() or in a chained operator,
\* the action ends with the buffer equal to the error marker, the committed
\* sequence empty, no operator pending and shouldResetScreen set
C22_FailureEntersError ==
    [][EvaluationFails
         => /\ currentValue' = ErrorMarker
            /\ inputHistory' = <<>>
            /\ operation' = Null
            /\ shouldResetScreen']_vars

\* C23: after every setOperation, shouldResetScreen is true and the buffer's
\* label, unit and color are cleared
C23_OperationClearsNaming ==
    [][OperationStep
         => /\ shouldResetScreen'
            /\ Unset(currentLabel')
            /\ Unset(currentUnit')
            /\ Unset(currentColor')]_vars

\* calculate() has just succeeded: the buffer holds the result it recorded,
\* awaiting an operand, and the committed sequence is empty
AfterSuccessfulCalculate ==
    /\ last.method = "calculate"
    /\ shouldResetScreen
    /\ operation = Null
    /\ inputHistory = <<>>
    /\ history # <<>>
    /\ currentValue = history[1].result

\* C24: setOperation(op) right after a successful calculate() commits the
\* result as the first operand: the committed sequence becomes exactly
\* [operand(result), operator(op)] and the chain goes on from the result
C24_ResultStartsNewChain ==
    [][AfterSuccessfulCalculate /\ OperationStep
         => /\ Len(inputHistory') = 2
            /\ inputHistory'[1].type = "operand"
            /\ inputHistory'[1].value = currentValue
            /\ inputHistory'[2] = OperatorToken(last'.args[1])
            /\ previousValue' = currentValue
            /\ operation' = last'.args[1]
            /\ currentValue' = currentValue]_vars

\* three calls: an operator, "=", which recorded an entry, and the operator
\* that has just committed the result and itself
C24_Witness ==
    /\ calls = 3
    /\ last.method = "setOperation"
    /\ history # <<>>
    /\ Len(inputHistory) = 2
    /\ inputHistory[1].value = history[1].result
    /\ inputHistory[2].value = operation

\* a call of inputDigit is being made
DigitStep == last'.method = "inputDigit" /\ calls' = calls + 1

\* C25: inputDigit(d) while shouldResetScreen is true makes d the whole
\* buffer value, clears the buffer's label, unit and color and the
\* intermediate-result flag and sets shouldResetScreen to false, for every
\* d, except that "0" on the buffer "0" changes nothing
C25_DigitStartsNewEntry ==
    [][DigitStep /\ shouldResetScreen
         => IF currentValue = <<"0">> /\ last'.args[1] = <<"0">>
            THEN UNCHANGED engine
            ELSE /\ currentValue' = last'.args[1]
                 /\ currentLabel' = Null
                 /\ currentUnit' = Null
                 /\ currentColor' = Null
                 /\ ~isIntermediateResult'
                 /\ ~shouldResetScreen']_vars

\* setUnit('current', 'm'), an operator and a digit: the digit has started
\* a new entry without the unit, which the previous operand keeps
C25_Witness ==
    /\ calls = 3
    /\ last.method = "inputDigit"
    /\ operation # Null
    /\ previousUnit = <<"m">>
    /\ currentUnit = Null
    /\ currentValue = last.args[1]
    /\ ~shouldResetScreen

\* C26: an inputDigit that changes the buffer value while shouldResetScreen
\* is false clears the buffer's label and leaves the buffer's unit as it
\* was, and a second "." changes nothing at all
C26_EditUnnamesKeepsUnit ==
    [][DigitStep /\ ~shouldResetScreen
         => /\ currentValue' # currentValue
                => Unset(currentLabel') /\ currentUnit' = currentUnit
            /\ last'.args[1] = <<".">> /\ Includes(currentValue, ".")
                => UNCHANGED engine]_vars

\* a call of setLabel or setUnit for the most recently committed operand is
\* being made
NamingPreviousStep ==
    /\ last'.method \in {"setLabel", "setUnit"}
    /\ calls' = calls + 1
    /\ last'.args[1] = "previous"

\* token i is the operand nearest the end of the committed sequence
NearestEndOperand(i) ==
    /\ inputHistory[i].type = "operand"
    /\ \A k \in DOMAIN inputHistory : k > i => inputHistory[k].type # "operand"

\* C27: setLabel and setUnit for the most recently committed operand write
\* to one committed token, the operand nearest the end of the committed
\* sequence, and leave every other token, the buffer's value, label and
\* unit and the history as they were
C27_NamesNearestEndOperand ==
    [][NamingPreviousStep
         => /\ Len(inputHistory') = Len(inputHistory)
            /\ \A i \in DOMAIN inputHistory :
                 IF NearestEndOperand(i)
                 THEN /\ inputHistory'[i].type = "operand"
                      /\ inputHistory'[i].value = inputHistory[i].value
                      /\ last'.method = "setLabel"
                           => /\ inputHistory'[i].label = last'.args[2]
                              /\ inputHistory'[i].unit = inputHistory[i].unit
                      /\ last'.method = "setUnit"
                           => /\ inputHistory'[i].unit = OrUndefined(last'.args[2])
                              /\ inputHistory'[i].label = inputHistory[i].label
                 ELSE inputHistory'[i] = inputHistory[i]
            /\ currentValue' = currentValue
            /\ currentLabel' = currentLabel
            /\ currentUnit' = currentUnit
            /\ history' = history]_vars

\* an operator, 1, an operator and setLabel('previous', 'a'): of the two
\* committed operands the second carries the label, the first does not
C27_Witness ==
    /\ last.method = "setLabel"
    /\ last.args[1] = "previous"
    /\ Len(inputHistory) = 4
    /\ inputHistory[4].type = "operator"
    /\ inputHistory[3].label = <<"a">>
    /\ inputHistory[1].label # <<"a">>

\* a call of loadFromHistory with an index of the history is being made
LoadStep ==
    /\ last'.method = "loadFromHistory"
    /\ calls' = calls + 1
    /\ last'.args[1] \in DOMAIN history

\* C28: loadFromHistory(i) for an index of the history leaves every
\* transient field as clear() leaves it, but for the committed sequence,
\* which equals the tokens of entry i, the buffer value, which equals the
\* result of entry i, and shouldResetScreen, which is true; no operator is
\* pending and the history and the variables are as they were
C28_LoadRestoresEntry ==
    [][LoadStep
         => /\ inputHistory' = history[last'.args[1]].expressionTokens
            /\ currentValue' = history[last'.args[1]].result
            /\ shouldResetScreen'
            /\ operation' = Null
            /\ previousValue' = Null
            /\ currentLabel' = Null /\ currentUnit' = Null /\ currentColor' = Null
            /\ previousLabel' = Null /\ previousUnit' = Null /\ previousColor' = Null
            /\ lastExpressionTokens' = Null
            /\ ~isIntermediateResult'
            /\ history' = history
            /\ variables' = variables]_vars

\* an operator, 1, "=", a saved variable and loadFromHistory(1): the
\* committed sequence is the three tokens of the entry, the buffer its result
C28_Witness ==
    /\ last.method = "loadFromHistory"
    /\ variables # <<>>
    /\ last.args[1] \in DOMAIN history
    /\ Len(inputHistory) = 3
    /\ inputHistory = history[last.args[1]].expressionTokens
    /\ currentValue = history[last.args[1]].result
    /\ shouldResetScreen
    /\ operation = Null

\* C29: calculate() while shouldResetScreen is false always commits the
\* buffer as a last operand and evaluates: it adds an entry to the history
\* or the buffer shows the error marker (with the buffer committed the
\* committed sequence is not empty, so the call is never without effect)
C29_CalculateMidEditEvaluates ==
    [][CalculateStep /\ ~shouldResetScreen
         => \/ Len(history') = Len(history) + 1
            \/ currentValue' = ErrorMarker]_vars

\* C30: only calculate() adds to the history: every call of another method,
\* a chained setOperation that computes an intermediate result among them,
\* leaves the history list as it was
C30_OnlyCalculateRecords ==
    [][calls' = calls + 1 /\ last'.method # "calculate"
         => history' = history]_vars

\* an operator and "=" recorded one entry; an operator, 1 and a second
\* operator then computed an intermediate result, and the history still
\* holds that one entry
C30_Witness ==
    /\ last.method = "setOperation"
    /\ isIntermediateResult
    /\ Len(inputHistory) = 4
    /\ Len(history) = 1

\* no two neighbouring tokens are of the same kind
Alternates(tokens) ==
    \A i \in DOMAIN tokens :
        i < Len(tokens) => tokens[i].type # tokens[i + 1].type

\* C31: the tokens of every history entry alternate operand, operator,
\* operand, ...: no two operands are neighbours and no two operators are
\* neighbours, also after an error and after loadFromHistory followed by
\* further input
C31_EntriesAlternate ==
    \A e \in DOMAIN history :
        /\ Alternates(history[e].expressionTokens)
        /\ history[e].expressionTokens # <<>>
               => history[e].expressionTokens[1].type = "operand"

\* C32: the tokens of every history entry are not empty and end with an
\* operand: calculate() right after an operator drops that operator before
\* it records, so no recorded expression ends with an operator
C32_EntriesEndWithOperand ==
    \A e \in DOMAIN history :
        /\ history[e].expressionTokens # <<>>
        /\ history[e].expressionTokens[Len(history[e].expressionTokens)].type
               = "operand"

\* an operator and "=" at once: the entry recorded holds the one operand,
\* the operator dropped
C32_Witness ==
    /\ calls = 2
    /\ last.method = "calculate"
    /\ Len(history) = 1
    /\ Len(history[1].expressionTokens) = 1
    /\ history[1].expressionTokens[1].type = "operand"
    /\ history[1].result = currentValue

\* C33: a buffer flagged as an intermediate result is never being typed:
\* isIntermediateResult implies shouldResetScreen
C33_IntermediateNotEditable ==
    isIntermediateResult => shouldResetScreen

\* C34: a name applied in the rename dialog goes to the operand that was
\* clicked: of the operands of the expression shown, the clicked one has
\* the label and the unit typed, and every other one keeps its own
C34_NameGoesToClickedToken ==
    [][last'.method \in {"saveLabel", "saveToVariables"} /\ calls' = calls + 1
         => /\ Len(getExpressionTokens(Self')) = Len(getExpressionTokens(Self))
            /\ \A k \in DOMAIN getExpressionTokens(Self) :
                 getExpressionTokens(Self)[k].type = "operand"
                   => IF k = last'.args[1]
                      THEN /\ OrUndefined(getExpressionTokens(Self')[k].label)
                                = OrUndefined(last'.args[2])
                           /\ OrUndefined(getExpressionTokens(Self')[k].unit)
                                = OrUndefined(last'.args[3])
                      ELSE /\ OrUndefined(getExpressionTokens(Self')[k].label)
                                = OrUndefined(getExpressionTokens(Self)[k].label)
                           /\ OrUndefined(getExpressionTokens(Self')[k].unit)
                                = OrUndefined(getExpressionTokens(Self)[k].unit)]_vars

\* C35: every operand keyed is recorded: for digits a and b and an operator
\* op, b not 0 when op is the division, the keys a, op, b, "=" on a new
\* calculator record an entry whose tokens are the operand a, the operator
\* op and the operand b
C35_KeyedOperandsRecorded ==
    \A a \in Digits, b \in Digits, op \in Operations :
        /\ keys = <<a[1], op[1], b[1], "=">>
        /\ ~(op = <<"/">> /\ b = <<"0">>)
        => /\ history # <<>>
           /\ TokenValues(history[1].expressionTokens) = <<a, op, b>>
           /\ TokenTypes(history[1].expressionTokens)
                = <<"operand", "operator", "operand">>

====
